---- MODULE Spec2Model ----
(***************************************************************************)
(* State-machine model of scripts/telemetry_forwarder.py:                  *)
(*   SystemIdTelemetryForwarder  (start, stop, _forward_loop, get_stats)   *)
(*   MultiDroneForwarder         (start_all, stop_all, print_stats)        *)
(* One caller thread (main) invokes the public operations; every start()   *)
(* that finds running == False launches one more _forward_loop thread.     *)
(* Loop threads advance one source statement at a time, so every point at  *)
(* which another thread can read the counters is a state of the model.     *)
(* An attribute update such as `self.packets_received += 1` is one step.   *)
(***************************************************************************)
EXTENDS Integers, Sequences, FiniteSets, TLC

VARIABLES
    running,            \* self.running, per forwarder
    start_time,         \* self.start_time (NoTime models None)
    packets_received,   \* self.packets_received
    packets_forwarded,  \* self.packets_forwarded
    packets_filtered,   \* self.packets_filtered
    bytes_forwarded,    \* self.bytes_forwarded
    system_ids_seen,    \* self.system_ids_seen
    loops,              \* per forwarder: the _forward_loop threads launched so far
    caller,             \* position of the calling (main) thread
    now,                \* time.time(), in whole seconds
    horizon,            \* the last second of wall-clock time that is modelled
    fuel,               \* recv_match returns the environment still delivers
    rcvd,               \* history: frames recv_match returned, per forwarder
    sent,               \* history: datagrams delivered, per destination port
    errors,             \* history: "Forward error" lines logged (line 131)
    warnings,           \* history: "No data for" warnings logged (line 95)
    stats_lines,        \* history: periodic statistics lines logged (line 143)
    noop_starts,        \* history: a start() call found running == True
    stopped             \* history: a stop() has returned after the forwarder was started

fwdVars   == <<running, start_time>>
cntVars   == <<packets_received, packets_forwarded, packets_filtered,
               bytes_forwarded, system_ids_seen>>
logVars   == <<errors, warnings, stats_lines>>
histVars  == <<rcvd, sent, noop_starts, stopped>>
clock     == <<now, horizon>>
vars      == <<fwdVars, cntVars, loops, caller, clock, fuel, histVars, logVars>>

----------------------------------------------------------------------------
(* Bounds of the model *)

\* last second of modelled wall-clock time
MaxTime == 2
\* recv_match returns (frame, timeout or exception) over all forwarders
MaxRecv == 2
\* recv_match returns delivered under the manager's specification
MaxRecvMgr == 1
\* _forward_loop threads launched per forwarder
MaxThreads == 2
\* recv_match returns on the silent link (Scenario B has 12 timeouts)
MaxSilence == 12
\* frames among the returns on the silent link
MaxSilenceFrames == 1
\* recv_match returns while the seen system ids are read
MaxIdsRecv == 2
\* last second of modelled time where the statistics interval must elapse
MaxStatsTime == 10
\* recv_match returns while the statistics interval elapses
MaxStatsRecv == 2

(* Program constants *)

\* self.start_time = None
NoTime == -1
\* self.thread.join(timeout=2)
JoinTimeout == 2
\* time.sleep(1)  # Stagger startup
StaggerDelay == 1
\* if consecutive_timeouts >= 10
SilenceLimit == 10
\* if current_time - last_stats_time >= 10.0
StatsInterval == 10

----------------------------------------------------------------------------
(* Configuration and frames *)

\* main(): the static per-drone configuration list (its first two entries)
Config ==
    << [drone_id |-> 1, px4_port |-> 14540, broadcast_port |-> 14550, expected_sysid |-> 1],
       [drone_id |-> 2, px4_port |-> 14541, broadcast_port |-> 14551, expected_sysid |-> 2] >>

\* MultiDroneForwarder.__init__: self.forwarders, in configuration order
Forwarders == 1 .. Len(Config)

expected_sysid(i) == Config[i].expected_sysid

broadcast_port(i) == Config[i].broadcast_port

Ports == {Config[i].broadcast_port : i \in Forwarders}

\* source system ids on the wire: 0 is the neutral id, 1 and 2 are drones
SysIds == {0, 1, 2}

\* The decoded frames recv_match returns: the first byte of msgbuf stands
\* for the header's system id; drone 1 also sends a longer frame.
Frames ==
    {[type |-> "HEARTBEAT", srcSystem |-> s, msgbuf |-> <<s>>] : s \in SysIds}
    \cup {[type |-> "ATTITUDE", srcSystem |-> 1, msgbuf |-> <<1, 7>>]}

\* What recv_match returns for bytes the decoder cannot parse: a message of
\* type BAD_DATA, whose header carries system id 0 and whose buffer is the
\* undecodable bytes (analyze_mavlink.py tests for this type).
BadData == [type |-> "BAD_DATA", srcSystem |-> 0, msgbuf |-> <<9>>]

\* the loop's local `msg` before any receive
NoMsg == [type |-> "None", srcSystem |-> 0, msgbuf |-> <<>>]

get_srcSystem(msg) == msg.srcSystem

get_msgbuf(msg) == msg.msgbuf

----------------------------------------------------------------------------
(* Threads *)

\* self.thread: the handle of the loop launched last (0 models None)
thread(i) == Len(loops[i])

\* a Thread object whose start() raised: created at line 56, never run
Unstarted(t) == t.pc = "unstarted"

Alive(t) == t.pc \notin {"done", "crashed", "unstarted"}

\* Thread.join returns at once for a thread that has ended
ThreadEnded(i) == thread(i) # 0 /\ loops[i][thread(i)].pc \in {"done", "crashed"}

\* Thread.join raises RuntimeError for a thread that was never started
JoinRaises(i) == thread(i) # 0 /\ Unstarted(loops[i][thread(i)])

NewLoop == [pc |-> "connect", msg |-> NoMsg, consecutive_timeouts |-> 0,
            last_stats_time |-> 0]

Idle == [pc |-> "idle", idx |-> 0, t |-> 0, all |-> FALSE]

\* The value kept for the loop's local last_stats_time (lines 85 and 128).
\* Line 126 compares it with a later time.time() <= horizon: every stamp
\* above horizon - StatsInterval makes that test false within the modelled
\* time, so those stamps are kept as one representative.
StatsStamp(t) == IF t > horizon - StatsInterval THEN horizon ELSE t

SetLoop(i, k, t) == loops' = [loops EXCEPT ![i][k] = t]

\* an increment of a counter all forwarders share
Inc_Shared(f, i) == [j \in DOMAIN f |-> f[j] + 1]

\* a counter that counts down
Inc_Decrement(f, i) == [f EXCEPT ![i] = @ - 1]

Inc(f, i) == [f EXCEPT ![i] = @ + 1]

----------------------------------------------------------------------------
(* SystemIdTelemetryForwarder.__init__ and MultiDroneForwarder.__init__ *)

InitState ==
    /\ running = [i \in Forwarders |-> FALSE]
    /\ start_time = [i \in Forwarders |-> NoTime]
    /\ packets_received = [i \in Forwarders |-> 0]
    /\ packets_forwarded = [i \in Forwarders |-> 0]
    /\ packets_filtered = [i \in Forwarders |-> 0]
    /\ bytes_forwarded = [i \in Forwarders |-> 0]
    /\ system_ids_seen = [i \in Forwarders |-> {}]
    /\ loops = [i \in Forwarders |-> <<>>]
    /\ caller = Idle
    /\ now = 0
    /\ rcvd = [i \in Forwarders |-> <<>>]
    /\ sent = [p \in Ports |-> <<>>]
    /\ errors = [i \in Forwarders |-> 0]
    /\ warnings = [i \in Forwarders |-> 0]
    /\ stats_lines = [i \in Forwarders |-> 0]
    /\ noop_starts = [i \in Forwarders |-> FALSE]
    /\ stopped = [i \in Forwarders |-> FALSE]

Init == InitState /\ fuel = MaxRecv /\ horizon = MaxTime

InitMgr == InitState /\ fuel = MaxRecvMgr /\ horizon = MaxTime

----------------------------------------------------------------------------
(* SystemIdTelemetryForwarder.start *)

\* start() without the test of lines 51-52
StartIsNoOp_Missing(i) == FALSE

\* lines 51-52: `if self.running: return`
StartIsNoOp(i) == running[i]

\* lines 51-57, the body of start() run by the calling thread
DoStart(i) ==
    IF StartIsNoOp(i)
    THEN /\ noop_starts' = [noop_starts EXCEPT ![i] = TRUE]
         /\ UNCHANGED <<running, start_time, loops>>
    ELSE /\ thread(i) < MaxThreads
         /\ running' = [running EXCEPT ![i] = TRUE]
         /\ start_time' = [start_time EXCEPT ![i] = now]
         /\ loops' = [loops EXCEPT ![i] = Append(@, NewLoop)]
         /\ UNCHANGED noop_starts

Start(i) ==
    /\ caller.pc = "idle"
    /\ DoStart(i)
    /\ UNCHANGED <<cntVars, caller, clock, fuel, rcvd, sent, stopped, logVars>>

----------------------------------------------------------------------------
(* SystemIdTelemetryForwarder.stop *)

\* line 68: the latest moment join(timeout=2) entered at time t0 returns
JoinDeadline(t0) == t0 + JoinTimeout

\* line 66: clear the flag; the caller is now inside stop(), at line 67
DoStopCall(i, all) ==
    /\ running' = [running EXCEPT ![i] = FALSE]
    /\ caller' = [pc |-> "stopping", idx |-> i, t |-> now, all |-> all]

\* join() without its timeout: it returns only when the thread has ended
JoinReturns_NoTimeout(i) == thread(i) = 0 \/ ThreadEnded(i)

\* lines 67-68: no thread handle, or join returns: the thread has ended or
\* the timeout has elapsed
JoinReturns(i) ==
    \/ thread(i) = 0
    \/ ThreadEnded(i)
    \/ ~JoinRaises(i) /\ now >= JoinDeadline(caller.t)

\* a manager that gives up on the list once a forwarder's loop has died
NextForwarder_AbortOnFailure(idx) ==
    IF idx < Len(Config) /\ \A k \in 1 .. Len(loops[idx]) : loops[idx][k].pc # "crashed"
    THEN idx + 1
    ELSE 0

\* line 188 and line 196: the forwarder after forwarder idx (0: none left)
NextForwarder(idx) == IF idx < Len(Config) THEN idx + 1 ELSE 0

StopCall(i) ==
    /\ caller.pc = "idle"
    /\ DoStopCall(i, FALSE)
    /\ UNCHANGED <<start_time, cntVars, loops, clock, fuel, histVars, logVars>>

\* lines 67-69: stop() returns, to its caller or to stop_all (lines 196-198),
\* which then calls stop() on the next forwarder
StopReturn ==
    /\ caller.pc = "stopping"
    /\ JoinReturns(caller.idx)
    /\ stopped' = [stopped EXCEPT ![caller.idx] = @ \/ thread(caller.idx) # 0]
    /\ IF caller.all /\ NextForwarder(caller.idx) # 0
       THEN DoStopCall(NextForwarder(caller.idx), TRUE)
       ELSE caller' = Idle /\ UNCHANGED running
    /\ UNCHANGED <<start_time, cntVars, loops, clock, fuel, rcvd, sent, noop_starts, logVars>>

\* line 68 raises RuntimeError (join of a thread that was never started):
\* stop() has no handler, and neither has stop_all (lines 196-197), so the
\* exception leaves both and the remaining forwarders are not stopped
StopRaise ==
    /\ caller.pc = "stopping"
    /\ JoinRaises(caller.idx)
    /\ caller' = Idle
    /\ UNCHANGED <<fwdVars, cntVars, loops, clock, fuel, histVars, logVars>>

----------------------------------------------------------------------------
(* SystemIdTelemetryForwarder.get_stats and MultiDroneForwarder.print_stats *)

\* Python's true division n / d, kept as an exact quotient; den = 0 stands
\* for the ZeroDivisionError the division raises
Quot(n, d) == [num |-> n, den |-> d]

\* the literal 0 of the `else 0` branches
Zero == [num |-> 0, den |-> 1]

\* line 152 (and line 138): time.time() - self.start_time, or 0 when
\* start_time is None (time.time() itself is never 0)
duration(i) == IF start_time[i] # NoTime THEN now - start_time[i] ELSE 0

\* a guard that lets a zero duration through to the division
DurationPositive_AllowsZero(d) == d >= 0

\* lines 161-162 (and line 139): `if duration > 0`
DurationPositive(d) == d > 0

\* line 159 (and line 141): `if self.packets_received > 0`
HasReceived(i) == packets_received[i] > 0

\* a listing of the set in descending order
RECURSIVE sorted_Descending(_)
sorted_Descending(S) ==
    IF S = {} THEN <<>>
    ELSE LET m == CHOOSE x \in S : \A y \in S : x >= y
         IN  <<m>> \o sorted_Descending(S \ {m})

\* line 163: sorted(self.system_ids_seen), the list of the set's elements
\* in ascending order
RECURSIVE sorted(_)
sorted(S) ==
    IF S = {} THEN <<>>
    ELSE LET m == CHOOSE x \in S : \A y \in S : x <= y
         IN  <<m>> \o sorted(S \ {m})

\* lines 153-164: the dictionary get_stats returns
get_stats(i) ==
    [drone_id          |-> Config[i].drone_id,
     expected_sysid    |-> expected_sysid(i),
     packets_received  |-> packets_received[i],
     packets_forwarded |-> packets_forwarded[i],
     packets_filtered  |-> packets_filtered[i],
     filter_percentage |-> IF HasReceived(i)
                           THEN Quot(packets_filtered[i] * 100, packets_received[i])
                           ELSE Zero,
     bytes_forwarded   |-> bytes_forwarded[i],
     forward_rate_hz   |-> IF DurationPositive(duration(i))
                           THEN Quot(packets_forwarded[i], duration(i))
                           ELSE Zero,
     bandwidth_kbps    |-> IF DurationPositive(duration(i))
                           THEN Quot(bytes_forwarded[i] * 8, 1024 * duration(i))
                           ELSE Zero,
     system_ids_seen   |-> sorted(system_ids_seen[i])]

\* the caller holds the dictionary get_stats(i) returned
HoldStats(i, all) ==
    caller' = [pc |-> "get_stats", idx |-> i, t |-> now, all |-> all, stats |-> get_stats(i)]

\* a get_stats that clears the receive counter as it reads it
GetStats_Resets(i) ==
    /\ caller.pc = "idle"
    /\ HoldStats(i, FALSE)
    /\ packets_received' = [packets_received EXCEPT ![i] = 0]
    /\ UNCHANGED <<fwdVars, packets_forwarded, packets_filtered, bytes_forwarded,
                   system_ids_seen, loops, clock, fuel, histVars, logVars>>

\* lines 150-164: a direct call of get_stats on forwarder i
GetStats(i) ==
    /\ caller.pc = "idle"
    /\ HoldStats(i, FALSE)
    /\ UNCHANGED <<fwdVars, cntVars, loops, clock, fuel, histVars, logVars>>

\* lines 206-207: print_stats() takes the first forwarder's statistics
PrintStatsCall ==
    /\ caller.pc = "idle"
    /\ HoldStats(1, TRUE)
    /\ UNCHANGED <<fwdVars, cntVars, loops, clock, fuel, histVars, logVars>>

\* lines 208-216: the statistics are printed; print_stats goes on to the
\* next forwarder, and the call returns after the last
StatsReturn ==
    /\ caller.pc = "get_stats"
    /\ IF caller.all /\ NextForwarder(caller.idx) # 0
       THEN HoldStats(NextForwarder(caller.idx), TRUE)
       ELSE caller' = Idle
    /\ UNCHANGED <<fwdVars, cntVars, loops, clock, fuel, histVars, logVars>>

----------------------------------------------------------------------------
(* SystemIdTelemetryForwarder._forward_loop, for loop thread k of forwarder i *)

\* lines 74-85: bind the source endpoint, create the send socket, set the
\* locals.  A failure here is outside the try: it ends the thread.
ConnectOk(i, k) ==
    /\ loops[i][k].pc = "connect"
    /\ SetLoop(i, k, [loops[i][k] EXCEPT !.pc = "while", !.consecutive_timeouts = 0,
                                         !.last_stats_time = StatsStamp(now)])
    /\ UNCHANGED <<fwdVars, cntVars, caller, clock, fuel, histVars, logVars>>

ConnectFail(i, k) ==
    /\ loops[i][k].pc = "connect"
    /\ SetLoop(i, k, [loops[i][k] EXCEPT !.pc = "crashed"])
    /\ UNCHANGED <<fwdVars, cntVars, caller, clock, fuel, histVars, logVars>>

\* line 87: `while self.running:`; on exit line 134 closes the send socket
While(i, k) ==
    /\ loops[i][k].pc = "while"
    /\ SetLoop(i, k, [loops[i][k] EXCEPT !.pc = IF running[i] THEN "recv" ELSE "done"])
    /\ UNCHANGED <<fwdVars, cntVars, caller, clock, fuel, histVars, logVars>>

\* a silence counter that is never reset after the warning
AfterTimeout_NoReset(c) == c + 1

\* lines 93-98: the local silence counter after one more timeout
AfterTimeout(c) == IF c + 1 >= SilenceLimit THEN 0 ELSE c + 1

\* a timeout that is counted as a received packet
RecvTimeout_Counts(i, k) ==
    /\ loops[i][k].pc = "recv"
    /\ fuel > 0
    /\ fuel' = fuel - 1
    /\ SetLoop(i, k, [loops[i][k] EXCEPT
            !.pc = "while",
            !.consecutive_timeouts = AfterTimeout(@)])
    /\ warnings' = IF loops[i][k].consecutive_timeouts + 1 >= SilenceLimit
                   THEN Inc(warnings, i) ELSE warnings
    /\ packets_received' = Inc(packets_received, i)
    /\ UNCHANGED <<fwdVars, packets_forwarded, packets_filtered, bytes_forwarded,
                   system_ids_seen, caller, clock, histVars, errors, stats_lines>>

\* lines 90-99: recv_match returned None
RecvTimeout(i, k) ==
    /\ loops[i][k].pc = "recv"
    /\ fuel > 0
    /\ fuel' = fuel - 1
    /\ SetLoop(i, k, [loops[i][k] EXCEPT
            !.pc = "while",
            !.consecutive_timeouts = AfterTimeout(@)])
    /\ warnings' = IF loops[i][k].consecutive_timeouts + 1 >= SilenceLimit
                   THEN Inc(warnings, i) ELSE warnings
    /\ UNCHANGED <<fwdVars, cntVars, caller, clock, histVars, errors, stats_lines>>

\* lines 90-103: recv_match returned a message; the silence counter is
\* reset and self.packets_received += 1
RecvMsg(i, k, m) ==
    /\ loops[i][k].pc = "recv"
    /\ fuel > 0
    /\ fuel' = fuel - 1
    /\ rcvd' = [rcvd EXCEPT ![i] = Append(@, m)]
    /\ packets_received' = Inc(packets_received, i)
    /\ SetLoop(i, k, [loops[i][k] EXCEPT
            !.pc = "seen", !.msg = m, !.consecutive_timeouts = 0])
    /\ UNCHANGED <<fwdVars, packets_forwarded, packets_filtered, bytes_forwarded,
                   system_ids_seen, caller, clock, sent, noop_starts, stopped, logVars>>

\* lines 90-103: recv_match returned the decoder's BAD_DATA message; it is
\* not None, so the loop handles it as any other message
RecvBadData(i, k) == RecvMsg(i, k, BadData)

\* a loop without the handler of line 130: the exception ends the thread
ExceptTarget_Uncaught == "crashed"

\* lines 130-132: where the handler leaves the thread: log, sleep(0.1), then
\* the next `while` test
ExceptTarget == "while"

\* lines 130-132: an exception raised inside the try is caught
Except(i, k) ==
    /\ errors' = Inc(errors, i)
    /\ SetLoop(i, k, [loops[i][k] EXCEPT !.pc = ExceptTarget, !.msg = NoMsg])

\* line 90 raises
RecvRaise(i, k) ==
    /\ loops[i][k].pc = "recv"
    /\ fuel > 0
    /\ fuel' = fuel - 1
    /\ Except(i, k)
    /\ UNCHANGED <<fwdVars, cntVars, caller, clock, histVars, warnings, stats_lines>>

\* a filter that also lets the neutral system id 0 through
Matches_PassNeutral(i, msg) ==
    get_srcSystem(msg) = expected_sysid(i) \/ get_srcSystem(msg) = 0

\* line 110: the filter decision
Matches(i, msg) == get_srcSystem(msg) = expected_sysid(i)

\* lines 106-110: record the system id, then branch on the filter
Seen(i, k) ==
    /\ loops[i][k].pc = "seen"
    /\ system_ids_seen' = [system_ids_seen EXCEPT
            ![i] = @ \cup {get_srcSystem(loops[i][k].msg)}]
    /\ SetLoop(i, k, [loops[i][k] EXCEPT
            !.pc = IF Matches(i, loops[i][k].msg) THEN "send" ELSE "filter"])
    /\ UNCHANGED <<fwdVars, packets_received, packets_forwarded, packets_filtered,
                   bytes_forwarded, caller, clock, fuel, histVars, logVars>>

\* lines 112-115: sendto delivers the message's raw bytes to the broadcast port
Send(i, k) ==
    /\ loops[i][k].pc = "send"
    /\ sent' = [sent EXCEPT ![broadcast_port(i)] = Append(@, get_msgbuf(loops[i][k].msg))]
    /\ SetLoop(i, k, [loops[i][k] EXCEPT !.pc = "fwd"])
    /\ UNCHANGED <<fwdVars, cntVars, caller, clock, fuel, rcvd, noop_starts, stopped, logVars>>

\* line 115 raises
SendRaise(i, k) ==
    /\ loops[i][k].pc = "send"
    /\ Except(i, k)
    /\ UNCHANGED <<fwdVars, cntVars, caller, clock, fuel, histVars, warnings, stats_lines>>

\* line 118: self.packets_forwarded += 1
Fwd(i, k) ==
    /\ loops[i][k].pc = "fwd"
    /\ packets_forwarded' = Inc(packets_forwarded, i)
    /\ SetLoop(i, k, [loops[i][k] EXCEPT !.pc = "bytes"])
    /\ UNCHANGED <<fwdVars, packets_received, packets_filtered, bytes_forwarded,
                   system_ids_seen, caller, clock, fuel, histVars, logVars>>

\* line 126: ten seconds have passed since the last statistics line
StatsDue(i, k) == now - loops[i][k].last_stats_time >= StatsInterval

\* lines 138-139: _log_stats writes its line only for a positive duration
LogsLine(i) == start_time[i] # NoTime /\ now - start_time[i] > 0

\* lines 125-128: the end of an iteration that handled a frame: the
\* periodic statistics line, then back to the `while` test
EndIteration(i, k) ==
    /\ stats_lines' = IF StatsDue(i, k) /\ LogsLine(i) THEN Inc(stats_lines, i)
                      ELSE stats_lines
    /\ SetLoop(i, k, [loops[i][k] EXCEPT
            !.pc = "while", !.msg = NoMsg,
            !.last_stats_time = IF StatsDue(i, k) THEN StatsStamp(now) ELSE @])

\* lines 119, 125-128: self.bytes_forwarded += len(msg_bytes)
Bytes(i, k) ==
    /\ loops[i][k].pc = "bytes"
    /\ bytes_forwarded' = [bytes_forwarded EXCEPT ![i] = @ + Len(get_msgbuf(loops[i][k].msg))]
    /\ EndIteration(i, k)
    /\ UNCHANGED <<fwdVars, packets_received, packets_forwarded, packets_filtered,
                   system_ids_seen, caller, clock, fuel, histVars, errors, warnings>>

\* lines 122, 125-128: self.packets_filtered += 1
Filter(i, k) ==
    /\ loops[i][k].pc = "filter"
    /\ packets_filtered' = Inc(packets_filtered, i)
    /\ EndIteration(i, k)
    /\ UNCHANGED <<fwdVars, packets_received, packets_forwarded, bytes_forwarded,
                   system_ids_seen, caller, clock, fuel, histVars, errors, warnings>>

\* the loop threads forwarder i has launched
LoopsOf(i) == 1 .. Len(loops[i])

----------------------------------------------------------------------------
(* MultiDroneForwarder.start_all *)

\* lines 187-190: start_all() starts the first forwarder and sleeps
StartAllCall ==
    /\ caller.pc = "idle"
    /\ DoStart(1)
    /\ caller' = [pc |-> "start_all", idx |-> 1, t |-> now, all |-> TRUE]
    /\ UNCHANGED <<cntVars, clock, fuel, rcvd, sent, stopped, logVars>>

\* lines 188-191: time.sleep(1) has elapsed: start the next forwarder and
\* sleep again, or return
StartAllSleep ==
    /\ caller.pc = "start_all"
    /\ now >= caller.t + StaggerDelay
    /\ IF NextForwarder(caller.idx) = 0
       THEN /\ caller' = Idle
            /\ UNCHANGED <<running, start_time, loops, noop_starts>>
       ELSE /\ DoStart(NextForwarder(caller.idx))
            /\ caller' = [caller EXCEPT !.idx = NextForwarder(caller.idx), !.t = now]
    /\ UNCHANGED <<cntVars, clock, fuel, rcvd, sent, stopped, logVars>>

\* lines 54-57 when Thread.start() raises RuntimeError (no new thread can be
\* created): running, start_time and the thread handle are already set
DoStartRaise(i) ==
    /\ ~StartIsNoOp(i)
    /\ thread(i) < MaxThreads
    /\ running' = [running EXCEPT ![i] = TRUE]
    /\ start_time' = [start_time EXCEPT ![i] = now]
    /\ loops' = [loops EXCEPT ![i] = Append(@, [NewLoop EXCEPT !.pc = "unstarted"])]
    /\ UNCHANGED noop_starts

\* line 189: start() raises inside start_all, which has no handler: the
\* exception leaves start_all and the later forwarders are not started
StartAllRaise ==
    /\ \E j \in Forwarders :
           /\ \/ caller.pc = "idle" /\ j = 1
              \/ /\ caller.pc = "start_all"
                 /\ now >= caller.t + StaggerDelay
                 /\ j = NextForwarder(caller.idx)
           /\ DoStartRaise(j)
    /\ caller' = Idle
    /\ UNCHANGED <<cntVars, clock, fuel, rcvd, sent, stopped, logVars>>

----------------------------------------------------------------------------
(* MultiDroneForwarder.stop_all *)

\* lines 195-197: stop_all() calls stop() on the first forwarder
StopAllCall ==
    /\ caller.pc = "idle"
    /\ DoStopCall(1, TRUE)
    /\ UNCHANGED <<start_time, cntVars, loops, clock, fuel, histVars, logVars>>

----------------------------------------------------------------------------
(* Wall-clock time *)

\* A second passes.  Inside stop() time passes only while join(timeout=2) is
\* blocked: it returns as soon as the thread has ended and no later than its
\* deadline.
Tick ==
    /\ now < horizon
    /\ caller.pc = "stopping" => ~JoinReturns(caller.idx) /\ ~JoinRaises(caller.idx)
    /\ now' = now + 1
    /\ UNCHANGED <<horizon, fwdVars, cntVars, loops, caller, fuel, histVars, logVars>>

----------------------------------------------------------------------------
(* Specifications *)

\* the forwarder driven directly through start() and stop()
Driven == {1}

\* One forwarder under an arbitrary caller of its public operations.
Next ==
    \/ \E i \in Driven : Start(i)
    \/ \E i \in Driven : StopCall(i)
    \/ StopReturn
    \/ Tick
    \/ \E i \in Forwarders : \E k \in LoopsOf(i) : ConnectOk(i, k)
    \/ \E i \in Forwarders : \E k \in LoopsOf(i) : ConnectFail(i, k)
    \/ \E i \in Forwarders : \E k \in LoopsOf(i) : While(i, k)
    \/ \E i \in Forwarders : \E k \in LoopsOf(i) : RecvTimeout(i, k)
    \/ \E i \in Forwarders : \E k \in LoopsOf(i) : \E m \in Frames : RecvMsg(i, k, m)
    \/ \E i \in Forwarders : \E k \in LoopsOf(i) : RecvRaise(i, k)
    \/ \E i \in Forwarders : \E k \in LoopsOf(i) : Seen(i, k)
    \/ \E i \in Forwarders : \E k \in LoopsOf(i) : Send(i, k)
    \/ \E i \in Forwarders : \E k \in LoopsOf(i) : SendRaise(i, k)
    \/ \E i \in Forwarders : \E k \in LoopsOf(i) : Fwd(i, k)
    \/ \E i \in Forwarders : \E k \in LoopsOf(i) : Bytes(i, k)
    \/ \E i \in Forwarders : \E k \in LoopsOf(i) : Filter(i, k)

Spec == Init /\ [][Next]_vars

\* All forwarders under the manager's start_all() and stop_all().
NextMgr ==
    \/ StartAllCall
    \/ StartAllSleep
    \/ StopAllCall
    \/ StopReturn
    \/ \E i \in Forwarders : GetStats(i)
    \/ PrintStatsCall
    \/ StatsReturn
    \/ Tick
    \/ \E i \in Forwarders : \E k \in LoopsOf(i) : RecvBadData(i, k)
    \/ \E i \in Forwarders : \E k \in LoopsOf(i) : ConnectOk(i, k)
    \/ \E i \in Forwarders : \E k \in LoopsOf(i) : ConnectFail(i, k)
    \/ \E i \in Forwarders : \E k \in LoopsOf(i) : While(i, k)
    \/ \E i \in Forwarders : \E k \in LoopsOf(i) : RecvTimeout(i, k)
    \/ \E i \in Forwarders : \E k \in LoopsOf(i) : \E m \in Frames : RecvMsg(i, k, m)
    \/ \E i \in Forwarders : \E k \in LoopsOf(i) : RecvRaise(i, k)
    \/ \E i \in Forwarders : \E k \in LoopsOf(i) : Seen(i, k)
    \/ \E i \in Forwarders : \E k \in LoopsOf(i) : Send(i, k)
    \/ \E i \in Forwarders : \E k \in LoopsOf(i) : SendRaise(i, k)
    \/ \E i \in Forwarders : \E k \in LoopsOf(i) : Fwd(i, k)
    \/ \E i \in Forwarders : \E k \in LoopsOf(i) : Bytes(i, k)
    \/ \E i \in Forwarders : \E k \in LoopsOf(i) : Filter(i, k)

SpecMgr == InitMgr /\ [][NextMgr]_vars

\* One forwarder driven through start() and stop() while statistics are
\* read: get_stats() and print_stats() between any two steps.
NextStats ==
    \/ \E i \in Driven : Start(i)
    \/ \E i \in Driven : StopCall(i)
    \/ StopReturn
    \/ Tick
    \/ \E i \in Forwarders : \E k \in LoopsOf(i) : ConnectOk(i, k)
    \/ \E i \in Forwarders : \E k \in LoopsOf(i) : While(i, k)
    \/ \E i \in Forwarders : \E k \in LoopsOf(i) : RecvTimeout(i, k)
    \/ \E i \in Forwarders : \E k \in LoopsOf(i) : \E m \in Frames : RecvMsg(i, k, m)
    \/ \E i \in Forwarders : \E k \in LoopsOf(i) : Seen(i, k)
    \/ \E i \in Forwarders : \E k \in LoopsOf(i) : Send(i, k)
    \/ \E i \in Forwarders : \E k \in LoopsOf(i) : Fwd(i, k)
    \/ \E i \in Forwarders : \E k \in LoopsOf(i) : Bytes(i, k)
    \/ \E i \in Forwarders : \E k \in LoopsOf(i) : Filter(i, k)
    \/ \E i \in Forwarders : GetStats(i)
    \/ PrintStatsCall
    \/ StatsReturn

SpecStats == InitMgr /\ [][NextStats]_vars

\* The manager when a thread cannot be created: Thread.start() raises in
\* start(), and a later join() of that thread raises in stop().
NextFault ==
    \/ StartAllCall
    \/ StartAllSleep
    \/ StartAllRaise
    \/ StopAllCall
    \/ StopReturn
    \/ StopRaise
    \/ Tick
    \/ \E i \in Forwarders : \E k \in LoopsOf(i) : ConnectOk(i, k)
    \/ \E i \in Forwarders : \E k \in LoopsOf(i) : ConnectFail(i, k)
    \/ \E i \in Forwarders : \E k \in LoopsOf(i) : While(i, k)
    \/ \E i \in Forwarders : \E k \in LoopsOf(i) : RecvTimeout(i, k)
    \/ \E i \in Forwarders : \E k \in LoopsOf(i) : \E m \in Frames : RecvMsg(i, k, m)
    \/ \E i \in Forwarders : \E k \in LoopsOf(i) : Seen(i, k)
    \/ \E i \in Forwarders : \E k \in LoopsOf(i) : Send(i, k)
    \/ \E i \in Forwarders : \E k \in LoopsOf(i) : Fwd(i, k)
    \/ \E i \in Forwarders : \E k \in LoopsOf(i) : Bytes(i, k)
    \/ \E i \in Forwarders : \E k \in LoopsOf(i) : Filter(i, k)

SpecFault == InitMgr /\ [][NextFault]_vars

\* One forwarder on a silent link: up to MaxSilence returns of recv_match
\* (timeouts and exceptions), at most MaxSilenceFrames of them frames.
InitSilence == InitState /\ fuel = MaxSilence /\ horizon = MaxTime

NextSilence ==
    \/ Start(1)
    \/ Tick
    \/ \E k \in LoopsOf(1) : ConnectOk(1, k)
    \/ \E k \in LoopsOf(1) : While(1, k)
    \/ \E k \in LoopsOf(1) : RecvTimeout(1, k)
    \/ \E k \in LoopsOf(1) : RecvRaise(1, k)
    \/ \E k \in LoopsOf(1) : \E m \in Frames :
           Len(rcvd[1]) < MaxSilenceFrames /\ RecvMsg(1, k, m)
    \/ \E k \in LoopsOf(1) : Seen(1, k)
    \/ \E k \in LoopsOf(1) : Send(1, k)
    \/ \E k \in LoopsOf(1) : Fwd(1, k)
    \/ \E k \in LoopsOf(1) : Bytes(1, k)
    \/ \E k \in LoopsOf(1) : Filter(1, k)

SpecSilence == InitSilence /\ [][NextSilence]_vars

\* One running forwarder whose statistics are read while it handles frames
\* of several systems.
InitIds == InitState /\ fuel = MaxIdsRecv /\ horizon = MaxTime

NextIds ==
    \/ Start(1)
    \/ Tick
    \/ GetStats(1)
    \/ StatsReturn
    \/ \E k \in LoopsOf(1) : ConnectOk(1, k)
    \/ \E k \in LoopsOf(1) : While(1, k)
    \/ \E k \in LoopsOf(1) : \E m \in Frames : RecvMsg(1, k, m)
    \/ \E k \in LoopsOf(1) : RecvBadData(1, k)
    \/ \E k \in LoopsOf(1) : Seen(1, k)
    \/ \E k \in LoopsOf(1) : Send(1, k)
    \/ \E k \in LoopsOf(1) : Fwd(1, k)
    \/ \E k \in LoopsOf(1) : Bytes(1, k)
    \/ \E k \in LoopsOf(1) : Filter(1, k)

SpecIds == InitIds /\ [][NextIds]_vars

\* One running forwarder over a full statistics interval of wall-clock time.
InitPeriodic == InitState /\ fuel = MaxStatsRecv /\ horizon = MaxStatsTime

NextPeriodic ==
    \/ Start(1)
    \/ Tick
    \/ \E k \in LoopsOf(1) : ConnectOk(1, k)
    \/ \E k \in LoopsOf(1) : While(1, k)
    \/ \E k \in LoopsOf(1) : RecvTimeout(1, k)
    \/ \E k \in LoopsOf(1) : RecvRaise(1, k)
    \/ \E k \in LoopsOf(1) : \E m \in Frames : RecvMsg(1, k, m)
    \/ \E k \in LoopsOf(1) : Seen(1, k)
    \/ \E k \in LoopsOf(1) : Send(1, k)
    \/ \E k \in LoopsOf(1) : SendRaise(1, k)
    \/ \E k \in LoopsOf(1) : Fwd(1, k)
    \/ \E k \in LoopsOf(1) : Bytes(1, k)
    \/ \E k \in LoopsOf(1) : Filter(1, k)

SpecPeriodic == InitPeriodic /\ [][NextPeriodic]_vars

----------------------------------------------------------------------------
(* What the histories say the forwarder should have done *)

IsMatch(i, m) == m.srcSystem = Config[i].expected_sysid

\* the received frames that carry the forwarder's own system id, in arrival order
MatchingFrames(i) == SelectSeq(rcvd[i], LAMBDA m : IsMatch(i, m))

OtherFrames(i) == SelectSeq(rcvd[i], LAMBDA m : ~IsMatch(i, m))

RawBytes(frames) == [n \in 1 .. Len(frames) |-> frames[n].msgbuf]

RECURSIVE TotalLen(_)
TotalLen(bufs) == IF bufs = <<>> THEN 0 ELSE Len(Head(bufs)) + TotalLen(Tail(bufs))

Delivered(i) == sent[Config[i].broadcast_port]

\* loop threads of forwarder i that hold a frame at one of the places pcs
Holding(i, pcs) == {k \in LoopsOf(i) : loops[i][k].pc \in pcs}

\* no loop of forwarder i is in the middle of an iteration
BetweenIterations(i) == \A k \in LoopsOf(i) : loops[i][k].msg = NoMsg

CountersOf(i) == <<packets_received[i], packets_forwarded[i], packets_filtered[i],
                   bytes_forwarded[i], system_ids_seen[i]>>

----------------------------------------------------------------------------
(* Claims *)

\* C1: in every reachable state, for every forwarder,
\* packets_received = packets_forwarded + packets_filtered.
C1_CountersBalance ==
    \A i \in Forwarders :
        packets_received[i] = packets_forwarded[i] + packets_filtered[i]

\* C2: whenever no loop of the forwarder still holds a received frame it has
\* not yet sent, the datagrams delivered to the destination port are exactly
\* the raw bytes of the received frames with the expected system id, in
\* arrival order.
C2_LosslessInOrder ==
    \A i \in Forwarders :
        Holding(i, {"seen", "send"}) = {} =>
            Delivered(i) = RawBytes(MatchingFrames(i))

\* C3: a received frame whose system id differs from expected_sysid is never
\* sent and is counted as filtered exactly once: every delivered datagram is
\* the raw bytes of a received frame with the expected id; packets_filtered
\* is the number of other frames received, less those a loop still holds
\* before line 122; and the step that counts a frame as filtered adds
\* exactly 1, drops the frame, sends nothing and leaves packets_forwarded
\* and bytes_forwarded alone.
C3_FilteredState ==
    \A i \in Forwarders :
        /\ \A n \in DOMAIN Delivered(i) :
               \E j \in DOMAIN rcvd[i] :
                   IsMatch(i, rcvd[i][j]) /\ rcvd[i][j].msgbuf = Delivered(i)[n]
        /\ packets_filtered[i] =
               Len(OtherFrames(i))
               - Cardinality({k \in Holding(i, {"seen", "filter"}) : ~IsMatch(i, loops[i][k].msg)})

C3_FilteredStep ==
    \A i \in Forwarders :
        packets_filtered'[i] # packets_filtered[i] =>
            /\ packets_filtered'[i] = packets_filtered[i] + 1
            /\ sent' = sent
            /\ packets_forwarded' = packets_forwarded
            /\ bytes_forwarded' = bytes_forwarded
            /\ \E k \in LoopsOf(i) :
                   /\ ~IsMatch(i, loops[i][k].msg)
                   /\ loops[i][k].pc = "filter"
                   /\ loops'[i][k].msg = NoMsg

C3_NonMatchingDropped == [](C3_FilteredState) /\ [][C3_FilteredStep]_vars

\* C3 witness: a frame with the neutral id 0 has been counted as filtered and
\* nothing was delivered.
C3_Witness ==
    /\ packets_filtered[1] = 1
    /\ Len(rcvd[1]) = 1
    /\ rcvd[1][1].srcSystem = 0
    /\ Delivered(1) = <<>>
    /\ BetweenIterations(1)

\* C4: once the loop has processed the frames it received (no iteration in
\* progress), packets_forwarded is the number m of matching frames,
\* packets_filtered the number k of the others, packets_received = m + k and
\* bytes_forwarded the summed length of the m matching frames.
C4_FinalCounters ==
    \A i \in Forwarders :
        BetweenIterations(i) =>
            /\ packets_forwarded[i] = Len(MatchingFrames(i))
            /\ packets_filtered[i] = Len(OtherFrames(i))
            /\ packets_received[i] = Len(rcvd[i])
            /\ bytes_forwarded[i] = TotalLen(RawBytes(MatchingFrames(i)))

\* C5: a start() call that finds running true leaves running true and
\* leaves start_time, the launched loop threads (the thread handle) and all
\* counters of that forwarder unchanged.
C5_StartIdempotent ==
    [][\A i \in Driven :
          (Start(i) /\ running[i]) =>
              /\ running'[i]
              /\ start_time'[i] = start_time[i]
              /\ loops'[i] = loops[i]
              /\ CountersOf(i)' = CountersOf(i)]_vars

\* C5 witness: start() was called on the running forwarder after time had
\* passed, and there is still one loop and the first start time.
C5_Witness ==
    /\ noop_starts[1]
    /\ running[1]
    /\ ~stopped[1]
    /\ thread(1) = 1
    /\ start_time[1] = 0
    /\ now > 0

\* C6: while the caller is inside stop(), running is false and no more than
\* the grace period has passed since the call; when the grace period has
\* passed, stop() can return whatever the loop thread is doing.
C6_StopCompletes ==
    caller.pc = "stopping" =>
        /\ ~running[caller.idx]
        /\ now - caller.t <= JoinTimeout
        /\ (now - caller.t = JoinTimeout \/ thread(caller.idx) = 0) => ENABLED StopReturn

\* C6 witness: stop() has returned, at the end of the grace period, while
\* the forwarder's only loop thread is still alive (the loop is abandoned).
C6_Witness ==
    /\ caller.pc = "idle"
    /\ stopped[1]
    /\ ~running[1]
    /\ thread(1) = 1
    /\ Alive(loops[1][1])
    /\ now = JoinTimeout

\* C7: once stop() has returned for a forwarder, its counters and
\* system_ids_seen never change again and nothing more is delivered to its
\* destination port.
C7_NothingAfterStopped ==
    [][\A i \in Forwarders :
          stopped[i] => (CountersOf(i)' = CountersOf(i) /\ Delivered(i)' = Delivered(i))]_vars

\* C8: Stopped is terminal: a forwarder whose stop() has returned never has
\* running true again.
C8_StoppedIsTerminal ==
    \A i \in Forwarders : stopped[i] => ~running[i]

\* C9: a step that logs a "Forward error" (an exception raised by the
\* receive or the send call) leaves running as it is, takes the raising
\* loop from that call to its next `while` test, and changes no counter.
C9_ExceptionNotFatal ==
    [][\A i \in Forwarders :
          errors'[i] # errors[i] =>
              /\ running' = running
              /\ CountersOf(i)' = CountersOf(i)
              /\ \E k \in LoopsOf(i) :
                     /\ loops[i][k].pc \in {"recv", "send"}
                     /\ loops'[i][k].pc = "while"
                     /\ \A j \in LoopsOf(i) \ {k} : loops'[i][j] = loops[i][j]]_vars

\* C9 witness: the send of the first matching frame raised, and the same
\* loop has since forwarded the next matching frame.
C9_Witness ==
    /\ thread(1) = 1
    /\ running[1]
    /\ errors[1] = 1
    /\ Len(rcvd[1]) = 2
    /\ IsMatch(1, rcvd[1][1])
    /\ IsMatch(1, rcvd[1][2])
    /\ rcvd[1][1].msgbuf # rcvd[1][2].msgbuf
    /\ Delivered(1) = <<rcvd[1][2].msgbuf>>
    /\ packets_forwarded[1] = 1

\* C10: start_all() returns with start() called on every forwarder (each has
\* running true and a launched loop), whatever happened to the loops started
\* before; and a loop thread dying in its connection attempt changes nothing
\* of the caller or of any other forwarder.
C10_StartFailureConfined ==
    [][/\ (caller.pc = "start_all" /\ caller'.pc = "idle") =>
              \A j \in Forwarders : running'[j] /\ Len(loops'[j]) >= 1
       /\ \A i \in Forwarders :
              (\E k \in LoopsOf(i) : loops[i][k].pc = "connect" /\ loops'[i][k].pc = "crashed") =>
                  /\ caller' = caller
                  /\ \A j \in Forwarders \ {i} :
                         /\ running'[j] = running[j]
                         /\ start_time'[j] = start_time[j]
                         /\ loops'[j] = loops[j]
                         /\ CountersOf(j)' = CountersOf(j)
                         /\ Delivered(j)' = Delivered(j)]_vars

\* C10 witness: start_all() has returned, the first forwarder's loop died
\* connecting, and the second forwarder is running and has relayed a frame.
C10_Witness ==
    /\ caller.pc = "idle"
    /\ thread(1) = 1
    /\ loops[1][1].pc = "crashed"
    /\ running[2]
    /\ thread(2) = 1
    /\ Delivered(2) = <<<<2>>>>
    /\ packets_forwarded[2] = 1

\* forwarders with a loop thread inside its connection attempt (lines 74-75)
Connecting == {i \in Forwarders : \E k \in LoopsOf(i) : loops[i][k].pc = "connect"}

\* C11: under start_all() a forwarder is started only after every forwarder
\* before it in the list, and at no time are two forwarders inside their
\* connection attempt.
C11_StartedInOrder ==
    \A j \in Forwarders : thread(j) # 0 => \A i \in 1 .. j - 1 : thread(i) # 0

C11_StaggeredConnect ==
    /\ C11_StartedInOrder
    /\ Cardinality(Connecting) <= 1

\* C12: whenever the caller leaves stop_all(), stop() has been called on
\* every forwarder of the list: each has running false, also when the stop()
\* of an earlier forwarder failed.
C12_StopAllBestEffort ==
    [][(caller.pc = "stopping" /\ caller.all /\ caller'.pc = "idle") =>
           \A j \in Forwarders : ~running'[j]]_vars

\* the caller takes a statistics dictionary in this step
TakesStats == caller'.pc = "get_stats" /\ caller' # caller

\* C13: whenever the caller is free, get_stats() of every forwarder and
\* print_stats() can be called, whatever the forwarder's lifecycle state and
\* wherever its loop stands; taking and returning the statistics changes no
\* field of any forwarder and sends nothing.
C13_StatsReadOnly ==
    /\ [](caller.pc = "idle" =>
              /\ \A i \in Forwarders : ENABLED GetStats(i)
              /\ ENABLED PrintStatsCall)
    /\ [][(TakesStats \/ (caller.pc = "get_stats" /\ caller' # caller)) =>
              /\ UNCHANGED <<fwdVars, cntVars, loops, sent>>
              /\ caller'.pc \in {"get_stats", "idle"}]_vars

\* C13 witness: get_stats() returned while the forwarder was running with
\* its loop in the middle of an iteration: the frame is counted as received
\* and not yet as forwarded.
C13_Witness ==
    /\ caller.pc = "get_stats"
    /\ running[caller.idx]
    /\ caller.stats.packets_received = 1
    /\ caller.stats.packets_forwarded = 0
    /\ caller.stats.packets_filtered = 0
    /\ \E k \in LoopsOf(caller.idx) : loops[caller.idx][k].pc = "send"

\* the quotient q is the number n / d
IsRatio(q, n, d) == q.den # 0 /\ q.num * d = n * q.den

\* C14: the dictionary get_stats() returns never holds a faulting division:
\* filter_percentage is 0 when packets_received is 0 and
\* packets_filtered / packets_received * 100 otherwise; forward_rate_hz and
\* bandwidth_kbps are 0 when the forwarder was never started or the elapsed
\* time is not positive, and packets_forwarded / elapsed and
\* bytes_forwarded * 8 / 1024 / elapsed otherwise.
C14_MetricsGuarded ==
    [][TakesStats =>
          LET i == caller'.idx
              st == caller'.stats
              elapsed == now - start_time[i]
          IN  /\ st.filter_percentage.den # 0
              /\ st.forward_rate_hz.den # 0
              /\ st.bandwidth_kbps.den # 0
              /\ IF packets_received[i] = 0
                 THEN st.filter_percentage = Zero
                 ELSE IsRatio(st.filter_percentage, packets_filtered[i] * 100, packets_received[i])
              /\ IF start_time[i] = NoTime \/ elapsed <= 0
                 THEN st.forward_rate_hz = Zero /\ st.bandwidth_kbps = Zero
                 ELSE /\ IsRatio(st.forward_rate_hz, packets_forwarded[i], elapsed)
                      /\ IsRatio(st.bandwidth_kbps, bytes_forwarded[i] * 8, 1024 * elapsed)]_vars

\* C14 witness: statistics taken in the second the forwarder was started,
\* after it filtered its only frame: the elapsed time is 0, the rates are 0
\* and filter_percentage is 100.
C14_Witness ==
    /\ caller.pc = "get_stats"
    /\ start_time[caller.idx] = caller.t
    /\ caller.stats.packets_filtered = 1
    /\ IsRatio(caller.stats.filter_percentage, 100, 1)
    /\ caller.stats.forward_rate_hz = Zero
    /\ caller.stats.bandwidth_kbps = Zero

\* a loop thread of forwarder i takes a step
LoopStep(i) == loops'[i] # loops[i] /\ Len(loops'[i]) = Len(loops[i])

\* everything forwarder j owns, and what was delivered to its port
FieldsOf(j) == <<running[j], start_time[j], CountersOf(j), loops[j], Delivered(j),
                 errors[j], warnings[j], stats_lines[j]>>

\* C15: a step of a loop of forwarder i (a frame, a timeout or an exception
\* it handles) changes no field of any other forwarder, no loop-local of any
\* other forwarder, and sends to no port but forwarder i's own.
C15_NoSharedState ==
    [][\A i \in Forwarders :
          LoopStep(i) =>
              /\ \A j \in Forwarders \ {i} : FieldsOf(j)' = FieldsOf(j)
              /\ \A p \in Ports \ {broadcast_port(i)} : sent'[p] = sent[p]]_vars

\* C15 witness: forwarder 2 has received and filtered a frame of system 1
\* while forwarder 1 was running with a live loop; forwarder 1 has counted
\* nothing and nothing was sent.
C15_Witness ==
    /\ running[1] /\ running[2]
    /\ \E k \in LoopsOf(1) : loops[1][k].pc = "recv"
    /\ packets_received = <<0, 1>>
    /\ packets_filtered = <<0, 1>>
    /\ system_ids_seen = <<{}, {1}>>
    /\ \A p \in Ports : sent[p] = <<>>

\* C16: no counter of a forwarder ever decreases, system_ids_seen never
\* loses an element, and a step that changes them is a step of one of that
\* forwarder's own loop threads at one of the lines 103-122: it is no step
\* of the caller (start, stop, get_stats, start_all, stop_all, print_stats).
C16_MonotonicOwnLoop ==
    [][\A i \in Forwarders :
          /\ packets_received'[i] >= packets_received[i]
          /\ packets_forwarded'[i] >= packets_forwarded[i]
          /\ packets_filtered'[i] >= packets_filtered[i]
          /\ bytes_forwarded'[i] >= bytes_forwarded[i]
          /\ system_ids_seen[i] \subseteq system_ids_seen'[i]
          /\ CountersOf(i)' # CountersOf(i) =>
                 /\ caller' = caller
                 /\ fwdVars' = fwdVars
                 /\ \E k \in LoopsOf(i) :
                        /\ loops[i][k].pc \in {"recv", "seen", "fwd", "bytes", "filter"}
                        /\ loops'[i][k] # loops[i][k]]_vars

\* C16 witness: forwarder 1 was stopped and started again by the manager,
\* and the frame counted before the stop is still counted.
C16_Witness ==
    /\ stopped[1]
    /\ running[1]
    /\ thread(1) = 2
    /\ packets_received[1] = 1
    /\ packets_forwarded[1] = 1

\* C17: a loop step that takes or handles the decoder's BAD_DATA message
\* changes no counter of the forwarder, adds nothing to system_ids_seen and
\* sends nothing to the destination.
C17_BadDataNotCounted ==
    [][\A i \in Forwarders : \A k \in LoopsOf(i) :
          (/\ loops'[i][k] # loops[i][k]
           /\ \/ loops[i][k].msg.type = "BAD_DATA"
              \/ loops'[i][k].msg.type = "BAD_DATA") =>
              /\ CountersOf(i)' = CountersOf(i)
              /\ Delivered(i)' = Delivered(i)]_vars

\* C18: the running flag is looked at only by the `while` test: a loop ends
\* only there, holding no frame; and a frame a loop holds when running is
\* already false is still processed to the end, the loop letting go of it
\* only at line 119 (sent and counted) or line 122 (counted as filtered).
C18_InFlightFrameCompleted ==
    [][\A i \in Forwarders : \A k \in LoopsOf(i) :
          /\ (loops'[i][k].pc = "done" /\ loops[i][k].pc # "done") =>
                 loops[i][k].pc = "while" /\ loops[i][k].msg = NoMsg
          /\ (~running[i] /\ loops[i][k].msg # NoMsg /\ loops'[i][k].msg = NoMsg) =>
                 loops[i][k].pc \in {"bytes", "filter"}]_vars

\* the live loop threads of forwarder i
LiveLoops(i) == {k \in LoopsOf(i) : Alive(loops[i][k])}

\* C19: a forwarder never has more than one live loop thread.
C19_OneLiveLoop ==
    \A i \in Forwarders : Cardinality(LiveLoops(i)) <= 1

\* loop k of forwarder i returns from recv_match with a timeout in this step
TimeoutStep(i, k) ==
    /\ loops[i][k].pc = "recv"
    /\ loops'[i][k].pc = "while"
    /\ errors' = errors

\* loop k of forwarder i returns from recv_match with a message in this step
FrameStep(i, k) == loops[i][k].pc = "recv" /\ loops'[i][k].pc = "seen"

\* recv_match returns so far on the silent link
SilentReturns == MaxSilence - fuel

\* C20: between iterations the silence counter is in 0..9; a timeout takes
\* it from c to c + 1, or from 9 back to 0 with exactly one warning; a
\* received frame sets it to 0 without a warning; nothing else emits a
\* warning; a timeout changes neither running nor a counter; and after N
\* timeouts in a row from the start of the loop floor(N / 10) warnings have
\* been emitted.
C20_SilenceState ==
    /\ \A i \in Forwarders : \A k \in LoopsOf(i) :
           loops[i][k].consecutive_timeouts \in 0 .. 9
    /\ (thread(1) = 1 /\ rcvd[1] = <<>> /\ errors[1] = 0) =>
           /\ warnings[1] = SilentReturns \div 10
           /\ loops[1][1].consecutive_timeouts = SilentReturns % 10

C20_SilenceStep ==
    \A i \in Forwarders :
        /\ \A k \in LoopsOf(i) :
               /\ TimeoutStep(i, k) =>
                      LET c == loops[i][k].consecutive_timeouts
                      IN  /\ loops'[i][k].consecutive_timeouts = IF c = 9 THEN 0 ELSE c + 1
                          /\ warnings'[i] = IF c = 9 THEN warnings[i] + 1 ELSE warnings[i]
                          /\ running' = running
                          /\ CountersOf(i)' = CountersOf(i)
               /\ FrameStep(i, k) =>
                      /\ loops'[i][k].consecutive_timeouts = 0
                      /\ warnings' = warnings
        /\ warnings'[i] # warnings[i] =>
               \E k \in LoopsOf(i) : TimeoutStep(i, k) /\ running' = running

C20_SilenceWarning == [](C20_SilenceState) /\ [][C20_SilenceStep]_vars

\* C20 witness (Scenario B): twelve timeouts in a row, exactly one warning,
\* the counter at 2, and the forwarder still running.
C20_Witness ==
    /\ SilentReturns = 12
    /\ rcvd[1] = <<>>
    /\ errors[1] = 0
    /\ thread(1) = 1
    /\ warnings[1] = 1
    /\ loops[1][1].consecutive_timeouts = 2
    /\ running[1]

\* C21: a forwarder whose running flag is true has a live loop thread.
C21_RunningHasLiveLoop ==
    \A i \in Forwarders : running[i] => LiveLoops(i) # {}

\* loop k of forwarder i ends an iteration in this step: it handled a
\* frame, a timeout or an exception and is back at the `while` test
EndsIteration(i, k) ==
    /\ loops[i][k].pc \in {"recv", "send", "bytes", "filter"}
    /\ loops'[i][k].pc = "while"

\* C22: a statistics line is emitted only when 10 seconds have passed since
\* the loop's last-reported timestamp, and whenever an iteration of a running
\* forwarder's loop ends with 10 seconds passed (after a frame, a timeout or
\* an exception) the line is emitted then and the timestamp is renewed.
C22_StatsEveryInterval ==
    [][\A i \in Forwarders :
          /\ stats_lines'[i] # stats_lines[i] =>
                 \E k \in LoopsOf(i) :
                     EndsIteration(i, k) /\ now - loops[i][k].last_stats_time >= 10
          /\ \A k \in LoopsOf(i) :
                 (/\ running[i]
                  /\ EndsIteration(i, k)
                  /\ now - loops[i][k].last_stats_time >= 10) =>
                     /\ stats_lines'[i] = stats_lines[i] + 1
                     /\ loops'[i][k].last_stats_time = StatsStamp(now)]_vars

\* the source system ids of the frames forwarder i has counted as received
CountedIds(i) == {rcvd[i][n].srcSystem : n \in DOMAIN rcvd[i]}

\* the ids of the frames a loop has counted (line 103) and not yet recorded
\* (line 107)
UnrecordedIds(i) == {loops[i][k].msg.srcSystem : k \in Holding(i, {"seen"})}

\* the sequence lists its elements in ascending order without repetition
Ascending(q) == \A m, n \in DOMAIN q : m < n => q[m] < q[n]

\* C23 as stated: in every state system_ids_seen is exactly the set of ids
\* of the counted frames, so it is empty iff packets_received = 0 and holds
\* expected_sysid once a frame was forwarded; get_stats() reports it as an
\* ascending duplicate-free sequence.
C23_IdsExactlyCounted ==
    /\ \A i \in Forwarders :
           /\ system_ids_seen[i] = CountedIds(i)
           /\ system_ids_seen[i] = {} <=> packets_received[i] = 0
           /\ packets_forwarded[i] > 0 => expected_sysid(i) \in system_ids_seen[i]
    /\ caller.pc = "get_stats" => Ascending(caller.stats.system_ids_seen)

\* C23 amended: system_ids_seen holds only ids of counted frames and misses
\* at most the ids of frames a loop has counted at line 103 and not yet
\* recorded at line 107 (so between iterations it is exactly the set of
\* counted ids); it is empty when packets_received = 0 and holds
\* expected_sysid once a frame was forwarded; and get_stats() reports the
\* set it read as an ascending duplicate-free sequence of its elements.
C23_IdsOfCountedState ==
    /\ \A i \in Forwarders :
           /\ system_ids_seen[i] \subseteq CountedIds(i)
           /\ CountedIds(i) \ system_ids_seen[i] \subseteq UnrecordedIds(i)
           /\ BetweenIterations(i) => system_ids_seen[i] = CountedIds(i)
           /\ packets_received[i] = 0 => system_ids_seen[i] = {}
           /\ packets_forwarded[i] > 0 => expected_sysid(i) \in system_ids_seen[i]
    /\ caller.pc = "get_stats" => Ascending(caller.stats.system_ids_seen)

C23_IdsOfCountedStep ==
    TakesStats =>
        /\ {caller'.stats.system_ids_seen[n] : n \in DOMAIN caller'.stats.system_ids_seen}
               = system_ids_seen[caller'.idx]
        /\ Len(caller'.stats.system_ids_seen) = Cardinality(system_ids_seen[caller'.idx])

C23_IdsOfCounted == [](C23_IdsOfCountedState) /\ [][C23_IdsOfCountedStep]_vars

\* C23 witness: frames of system 1 and then of system 0 were counted, and
\* get_stats() reported the ids as <<0, 1>>.
C23_Witness ==
    /\ caller.pc = "get_stats"
    /\ Len(rcvd[1]) = 2
    /\ rcvd[1][1].srcSystem = 1
    /\ rcvd[1][2].srcSystem = 0
    /\ caller.stats.system_ids_seen = <<0, 1>>
    /\ caller.stats.packets_received = 2

\* the first n elements of a sequence (all of it when it is shorter)
Prefix(q, n) == SubSeq(q, 1, IF n < Len(q) THEN n ELSE Len(q))

\* the step is a sendto of loop k of forwarder i that raises (line 115 to
\* the handler at lines 130-132)
SendRaiseStep(i, k) ==
    /\ loops[i][k].pc = "send"
    /\ loops'[i][k].pc = "while"
    /\ errors'[i] = errors[i] + 1

\* C24: in every reachable state packets_forwarded <= number of datagrams
\* sent <= packets_forwarded + 1, and bytes_forwarded is the summed length
\* of the first packets_forwarded sent datagrams; a send that raises
\* increments neither packets_forwarded nor bytes_forwarded.
C24_SentBoundsState ==
    \A i \in Forwarders :
        /\ packets_forwarded[i] <= Len(Delivered(i))
        /\ Len(Delivered(i)) <= packets_forwarded[i] + 1
        /\ bytes_forwarded[i] = TotalLen(Prefix(Delivered(i), packets_forwarded[i]))

C24_RaisingSendStep ==
    \A i \in Forwarders : \A k \in LoopsOf(i) :
        SendRaiseStep(i, k) =>
            /\ packets_forwarded' = packets_forwarded
            /\ bytes_forwarded' = bytes_forwarded
            /\ sent' = sent

C24_ForwardedNeverOverReports == [](C24_SentBoundsState) /\ [][C24_RaisingSendStep]_vars

\* recv_match of loop k of forwarder i returns None in this step: the loop
\* is back at the `while` test with another value of its silence counter
ReceiveAbsent(i, k) ==
    /\ loops[i][k].pc = "recv"
    /\ loops'[i][k].pc = "while"
    /\ loops'[i][k].consecutive_timeouts # loops[i][k].consecutive_timeouts

\* C25: an iteration whose receive returns absent counts no error, leaves
\* packets_received, packets_forwarded, packets_filtered, bytes_forwarded
\* and system_ids_seen unchanged, sends nothing, records no frame and no
\* statistics line, and changes nothing of the forwarder or its loop but the
\* loop's consecutive-timeout counter.
C25_TimeoutInvisible ==
    [][\A i \in Forwarders : \A k \in LoopsOf(i) :
          ReceiveAbsent(i, k) =>
              /\ errors' = errors
              /\ cntVars' = cntVars
              /\ sent' = sent
              /\ rcvd' = rcvd
              /\ stats_lines' = stats_lines
              /\ fwdVars' = fwdVars
              /\ loops' = [loops EXCEPT ![i][k] =
                             [@ EXCEPT !.pc = "while",
                                       !.consecutive_timeouts =
                                           loops'[i][k].consecutive_timeouts]]]_vars

\* C25 witness: a frame was forwarded, then a receive timed out: the silence
\* counter is 1 and the statistics are those of the one frame.
C25_Witness ==
    /\ thread(1) = 1
    /\ loops[1][1].pc = "while"
    /\ loops[1][1].consecutive_timeouts = 1
    /\ packets_received[1] = 1
    /\ packets_forwarded[1] = 1
    /\ bytes_forwarded[1] > 0
    /\ system_ids_seen[1] = {expected_sysid(1)}
    /\ Len(Delivered(1)) = 1
    /\ errors[1] = 0

\* stop() is called on forwarder i in this step (directly or by stop_all)
StopCalled(i) ==
    /\ caller'.pc = "stopping"
    /\ caller'.idx = i
    /\ ~(caller.pc = "stopping" /\ caller.idx = i)

\* the stop() call on forwarder i ends in this step
StopLeft(i) ==
    /\ caller.pc = "stopping"
    /\ caller.idx = i
    /\ ~(caller'.pc = "stopping" /\ caller'.idx = i)

\* C26: a stop() called on a forwarder whose running flag is false (never
\* started, or stopped before) raises no error, launches nothing, leaves
\* running false and leaves start_time, the counters and system_ids_seen
\* unchanged, at the call and when the call ends.
C26_StopOutsideRunning ==
    [][\A i \in Forwarders :
          /\ (StopCalled(i) /\ ~running[i]) =>
                 /\ ~JoinRaises(i)
                 /\ ~running'[i]
                 /\ start_time' = start_time
                 /\ loops' = loops
                 /\ cntVars' = cntVars
          /\ (StopLeft(i) /\ ~running[i]) =>
                 /\ ~running'[i]
                 /\ start_time' = start_time
                 /\ loops' = loops
                 /\ cntVars' = cntVars]_vars

====
